---- MODULE Spec2Model ----
(***************************************************************************)
(* Media Mix Model Analyzer (src/app.py): the holiday covariate builder    *)
(* add_holiday_columns_to_array, the solver wrapper budget_allocator and   *)
(* the Streamlit script that loads a model bundle and runs the allocator.  *)
(*                                                                         *)
(* Dates are day ordinals (days since 1970-01-01, proleptic Gregorian).    *)
(* Strings are sequences of one-character strings, so that split, replace  *)
(* and lower are computed character by character as Python computes them. *)
(* Currency amounts are exact decimals: prices in tenths, media units in   *)
(* hundredths, their product in thousandths, rounded to hundredths.        *)
(***************************************************************************)
EXTENDS Integers, Sequences, FiniteSets, TLC

VARIABLES
    \* ---- module-level names of app.py (bound by line 111) ----
    extra_scaler,      \* the ambient covariate scaler read by line 62
    \* ---- one function call observed at the call boundary ----
    call,              \* the function called last and its arguments
    df,                \* add_holiday_columns_to_array: the frame before line 57
    ret,               \* how the call ended: a return value or a raise
    \* ---- canonicalization (line 41) applied to a name ----
    name,              \* the raw holiday name
    standardized,      \* the names obtained by applying line 41 repeatedly
    \* ---- one run of the script (lines 107-192) ----
    pc,                \* position of the script run
    model_file,        \* st.file_uploader result: NoFile or the uploaded bundle
    loaded,            \* the names bound by line 111, or NotLoaded
    n_weeks_to_predict,
    budget_to_allocate,
    run_button,
    screen,            \* what the run has written to the page, in order
    solver_calls,      \* arguments of each find_optimal_budgets call of this run
    solver_result,     \* what budget_allocator returned in this run
    table_data         \* the allocation table (line 158-174)

vars == <<extra_scaler, call, df, ret, name, standardized, pc, model_file, loaded,
          n_weeks_to_predict, budget_to_allocate, run_button, screen,
          solver_calls, solver_result, table_data>>

callVars == <<extra_scaler, call, df, ret>>
canonVars == <<name, standardized>>
scriptVars == <<pc, model_file, loaded, n_weeks_to_predict, budget_to_allocate,
                run_button, screen, solver_calls, solver_result, table_data>>

-----------------------------------------------------------------------------
(* Dates: datetime.date / pandas Timestamp arithmetic *)

\* date(y, m, d) as a day ordinal
DaysFromCivil(y, m, d) ==
    LET yy  == IF m <= 2 THEN y - 1 ELSE y
        era == yy \div 400
        yoe == yy - era * 400
        mp  == IF m > 2 THEN m - 3 ELSE m + 9
        doy == (153 * mp + 2) \div 5 + d - 1
        doe == yoe * 365 + yoe \div 4 - yoe \div 100 + doy
    IN  era * 146097 + doe - 719468

\* Timestamp.year (df['week'].dt.year)
YearOf(z) ==
    LET zz  == z + 719468
        era == zz \div 146097
        doe == zz - era * 146097
        yoe == (doe - doe \div 1460 + doe \div 36524 - doe \div 146096) \div 365
        doy == doe - (365 * yoe + yoe \div 4 - yoe \div 100)
        mp  == (5 * doy + 2) \div 153
        m   == IF mp < 10 THEN mp + 3 ELSE mp - 9
    IN  yoe + era * 400 + (IF m <= 2 THEN 1 ELSE 0)

\* date.weekday(): Monday = 0 ... Sunday = 6
Weekday(z) == (z + 3) % 7

-----------------------------------------------------------------------------
(* Strings: str.split, str.replace, str.lower *)

UpperCase ==
    <<"A","B","C","D","E","F","G","H","I","J","K","L","M",
      "N","O","P","Q","R","S","T","U","V","W","X","Y","Z">>
LowerCase ==
    <<"a","b","c","d","e","f","g","h","i","j","k","l","m",
      "n","o","p","q","r","s","t","u","v","w","x","y","z">>

LowerChar(c) ==
    IF \E i \in 1..Len(UpperCase) : UpperCase[i] = c
    THEN LowerCase[CHOOSE i \in 1..Len(UpperCase) : UpperCase[i] = c]
    ELSE c

\* s.lower()
Lower(s) == [i \in 1..Len(s) |-> LowerChar(s[i])]

\* s.split(sep)[0]: the text before the first occurrence of sep
RECURSIVE SplitHead(_, _)
SplitHead(s, sep) ==
    IF Len(s) < Len(sep) THEN s
    ELSE IF SubSeq(s, 1, Len(sep)) = sep THEN <<>>
    ELSE <<Head(s)>> \o SplitHead(Tail(s), sep)

\* s.replace(old, new): non-overlapping occurrences, left to right
RECURSIVE Replace(_, _, _)
Replace(s, old, new) ==
    IF Len(s) < Len(old) THEN s
    ELSE IF SubSeq(s, 1, Len(old)) = old
         THEN new \o Replace(SubSeq(s, Len(old) + 1, Len(s)), old, new)
         ELSE <<Head(s)>> \o Replace(Tail(s), old, new)

HldyPrefix == <<"h","l","d","y","_">>

\* line 41
standardized_name(n) ==
    HldyPrefix \o
    Lower(Replace(Replace(Replace(SplitHead(n, <<" ","(">>),
                                  <<"'","s">>, <<>>),
                          <<".">>, <<>>),
                  <<" ">>, <<"_">>))

-----------------------------------------------------------------------------
(* The holiday source: holidays.US(years=...) (external library).          *)
(* Federal holidays by the library's rules as they stand from 2021 on; the *)
(* library knows no US holiday before 1871. The dates drawn below keep the *)
(* spanned years in one of these two ranges.                               *)

NewYearsDay ==
    <<"N","e","w"," ","Y","e","a","r","'","s"," ","D","a","y">>
MLKDay ==
    <<"M","a","r","t","i","n"," ","L","u","t","h","e","r"," ","K","i","n","g"," ","J","r","."," ","D","a","y">>
WashingtonsBirthday ==
    <<"W","a","s","h","i","n","g","t","o","n","'","s"," ","B","i","r","t","h","d","a","y">>
MemorialDay ==
    <<"M","e","m","o","r","i","a","l"," ","D","a","y">>
Juneteenth ==
    <<"J","u","n","e","t","e","e","n","t","h"," ","N","a","t","i","o","n","a","l"," ","I","n","d","e","p","e","n","d","e","n","c","e"," ","D","a","y">>
IndependenceDay ==
    <<"I","n","d","e","p","e","n","d","e","n","c","e"," ","D","a","y">>
LaborDay ==
    <<"L","a","b","o","r"," ","D","a","y">>
ColumbusDay ==
    <<"C","o","l","u","m","b","u","s"," ","D","a","y">>
VeteransDay ==
    <<"V","e","t","e","r","a","n","s"," ","D","a","y">>
ThanksgivingDay ==
    <<"T","h","a","n","k","s","g","i","v","i","n","g"," ","D","a","y">>
ChristmasDay ==
    <<"C","h","r","i","s","t","m","a","s"," ","D","a","y">>
ObservedSuffix ==
    <<" ","(","o","b","s","e","r","v","e","d",")">>

Holiday(date, nm) == [date |-> date, name |-> nm]

\* a fixed-date holiday and its observed day (Saturday -> Friday, Sunday -> Monday)
FixedHoliday(y, m, d, nm) ==
    LET dt == DaysFromCivil(y, m, d)
    IN  {Holiday(dt, nm)}
        \cup (IF Weekday(dt) = 5 THEN {Holiday(dt - 1, nm \o ObservedSuffix)} ELSE {})
        \cup (IF Weekday(dt) = 6 THEN {Holiday(dt + 1, nm \o ObservedSuffix)} ELSE {})

\* New Year's Day of year y; the observed day of next year's falls in y when
\* December 31 of y is a Friday
NewYearHolidays(y) ==
    LET jan1  == DaysFromCivil(y, 1, 1)
        dec31 == DaysFromCivil(y, 12, 31)
    IN  {Holiday(jan1, NewYearsDay)}
        \cup (IF Weekday(jan1) = 6
              THEN {Holiday(jan1 + 1, NewYearsDay \o ObservedSuffix)} ELSE {})
        \cup (IF Weekday(dec31) = 4
              THEN {Holiday(dec31, NewYearsDay \o ObservedSuffix)} ELSE {})

\* the n-th weekday wd of month m
NthWeekday(y, m, wd, n) ==
    LET first == DaysFromCivil(y, m, 1)
    IN  first + ((wd - Weekday(first)) % 7) + 7 * (n - 1)

\* the last Monday of May
LastMondayOfMay(y) ==
    LET last == DaysFromCivil(y, 5, 31)
    IN  last - Weekday(last)

USHolidaysOfYear(y) ==
    IF y <= 1870 THEN {}
    ELSE NewYearHolidays(y)
         \cup {Holiday(NthWeekday(y, 1, 0, 3), MLKDay)}
         \cup {Holiday(NthWeekday(y, 2, 0, 3), WashingtonsBirthday)}
         \cup {Holiday(LastMondayOfMay(y), MemorialDay)}
         \cup FixedHoliday(y, 6, 19, Juneteenth)
         \cup FixedHoliday(y, 7, 4, IndependenceDay)
         \cup {Holiday(NthWeekday(y, 9, 0, 1), LaborDay)}
         \cup {Holiday(NthWeekday(y, 10, 0, 2), ColumbusDay)}
         \cup FixedHoliday(y, 11, 11, VeteransDay)
         \cup {Holiday(NthWeekday(y, 11, 3, 4), ThanksgivingDay)}
         \cup FixedHoliday(y, 12, 25, ChristmasDay)

\* holidays.US(years=unique_years).items()
USHolidays(years) == UNION {USHolidaysOfYear(y) : y \in years}

-----------------------------------------------------------------------------
(* Forecast windows drawn as inputs *)

\* the longest horizon a caller of the function passes (the page allows 12)
MaxHorizon == 13

\* end dates of the training data (the bundle's end_date)
EndDates ==
    {DaysFromCivil(2023, 12, 24), DaysFromCivil(2023, 12, 31),
     DaysFromCivil(2023, 6, 25), DaysFromCivil(2024, 11, 24),
     DaysFromCivil(1869, 6, 1)}

-----------------------------------------------------------------------------
(* add_holiday_columns_to_array (lines 29-63) *)

\* line 30: range(1, time_period + 1) weeks after end_date
WeekStartsShifted(end_date, time_period) ==
    [x \in 1..time_period |-> end_date + 7 * (x - 1)]
WeekStarts(end_date, time_period) ==
    [x \in 1..time_period |-> end_date + 7 * x]

\* line 35
UniqueYears(week) == {YearOf(week[i]) : i \in 1..Len(week)}

\* sorted(...) of line 39: the items by date
RECURSIVE SortedItems(_)
SortedItems(items) ==
    IF items = {} THEN <<>>
    ELSE LET first == CHOOSE h \in items : \A g \in items : h.date <= g.date
         IN  <<first>> \o SortedItems(items \ {first})

\* lines 38-42: holiday_dict in insertion order, one entry per standardized name
RECURSIVE SetDefaultAll(_, _)
SetDefaultAll(items, acc) ==
    IF items = <<>> THEN acc
    ELSE LET h  == Head(items)
             sn == standardized_name(h.name)
         IN  IF \E i \in 1..Len(acc) : acc[i].name = sn
             THEN LET i == CHOOSE k \in 1..Len(acc) : acc[k].name = sn
                  IN  SetDefaultAll(Tail(items),
                                    [acc EXCEPT ![i].dates = @ \cup {h.date}])
             ELSE SetDefaultAll(Tail(items),
                                Append(acc, [name |-> sn, dates |-> {h.date}]))

BuildHolidayDict(years) == SetDefaultAll(SortedItems(USHolidays(years)), <<>>)

\* the year sets the drawn inputs span, with their holiday_dict computed once
\* (the dictionary depends on unique_years alone)
KnownYearSets ==
    {UniqueYears(WeekStarts(e, t)) : e \in EndDates, t \in 1..MaxHorizon}
KnownHolidayDicts == [years \in KnownYearSets |-> BuildHolidayDict(years)]

HolidayDict(years) ==
    IF years \in KnownYearSets THEN KnownHolidayDicts[years]
    ELSE BuildHolidayDict(years)

\* line 54: week_start_date <= holiday_date <= week_end, week_end of line 51
InWindowNoLowerBound(week_start_date, holiday_date) ==
    holiday_date <= week_start_date + 6
InWindow(week_start_date, holiday_date) ==
    /\ week_start_date <= holiday_date
    /\ holiday_date <= week_start_date + 6

\* lines 30-54: the frame before the 'week' column is dropped
HolidayFrame(end_date, time_period) ==
    LET week         == WeekStarts(end_date, time_period)
        holiday_dict == HolidayDict(UniqueYears(week))
    IN  [week    |-> week,
         columns |-> [j \in 1..Len(holiday_dict) |-> holiday_dict[j].name],
         cells   |-> [i \in 1..Len(week) |->
                        [j \in 1..Len(holiday_dict) |->
                           IF \E d \in holiday_dict[j].dates : InWindow(week[i], d)
                           THEN 1 ELSE 0]]]

\* lines 57-60: drop 'week', to_numpy
ToNumpy(frame) ==
    [shape |-> <<Len(frame.cells), Len(frame.columns)>>, data |-> frame.cells]

Return(v) == [kind |-> "return", value |-> v]
Raise(e)  == [kind |-> "raise", value |-> e]

\* line 62: extra_scaler.transform (external). A scaler fitted on n_features
\* columns rejects any other width; n_features = 0 is a scaler built from scalar
\* factors, which broadcasts over any width
Transform(scaler, X) ==
    IF scaler.n_features # 0 /\ scaler.n_features # X.shape[2]
    THEN Raise("transform: shape mismatch")
    ELSE Return([shape |-> X.shape,
                 data  |-> [i \in 1..X.shape[1] |->
                              [j \in 1..X.shape[2] |->
                                 X.data[i][j] * scaler.multiply_by]]])

\* lines 29-63, with the module-level extra_scaler it reads
add_holiday_columns_to_array(end_date, time_period, ambient_scaler) ==
    Transform(ambient_scaler, ToNumpy(HolidayFrame(end_date, time_period)))

-----------------------------------------------------------------------------
(* budget_allocator (lines 66-79) and the solver it calls *)

\* the keyword arguments of lines 69-78 that the model tracks; the bound
\* fractions are in hundredths
SolverArgs(n_weeks, budget, prices, extra_features) ==
    [n_time_periods   |-> n_weeks,
     extra_features   |-> extra_features,
     budget           |-> budget,
     prices           |-> prices,
     bounds_lower_pct |-> 5,
     bounds_upper_pct |-> 95,
     seed             |-> 1]

\* media allocations (hundredths of a media unit) the solver may report for
\* n channels
MediaVectors(n) ==
    {v \in {<<1000, 400>>, <<800, 500>>, <<805, 415>>, <<300>>, <<125>>} : Len(v) = n}

\* optimize_media.find_optimal_budgets (external): it raises, or returns
\* (solution, kpi_without_optim, previous_media_allocation). The code passes the
\* budget through unexamined, so the outcomes do not depend on it here
find_optimal_budgets(args) ==
    {Raise("solver failure")}
    \cup {Return([x |-> x, previous_media_allocation |-> prev]) :
            x \in MediaVectors(Len(args.prices)),
            prev \in MediaVectors(Len(args.prices))}

\* lines 66-79: the covariates are built first (line 71); if that raises, the
\* solver is never called; otherwise the solver's outcome is the call's outcome.
\* The set of [ret, calls]: how the call may end and the solver calls it made
budget_allocator(n_weeks, budget, prices, end_date, ambient_scaler) ==
    LET extra_features == add_holiday_columns_to_array(end_date, n_weeks, ambient_scaler)
    IN  IF extra_features.kind = "raise"
        THEN {[ret |-> extra_features, calls |-> <<>>]}
        ELSE LET args == SolverArgs(n_weeks, budget, prices, extra_features.value)
             IN  {[ret |-> o, calls |-> <<args>>] : o \in find_optimal_budgets(args)}

-----------------------------------------------------------------------------
(* Inputs *)

MaxNameLen == 2
MaxApplications == 2

\* scalers a model bundle may carry
Scalers ==
    {[n_features |-> 0, multiply_by |-> 1],
     [n_features |-> 0, multiply_by |-> 2],
     [n_features |-> 11, multiply_by |-> 3]}

\* budget_allocator's own callers: fewer dates and weeks, any budget
AllocEndDates == {DaysFromCivil(2023, 12, 24), DaysFromCivil(1869, 6, 1)}
MaxAllocWeeks == 2
Budgets == {-1000, 0, 1000}

\* prices, in tenths of a currency unit per media unit
PriceVectors == {<<20, 50>>, <<25>>}

NameAlphabet == {"A", "s", "'", ".", " ", "("}

RawNames ==
    {h.name : h \in USHolidays({2022, 2023, 2024})}
    \cup UNION {[1..k -> NameAlphabet] : k \in 0..MaxNameLen}

NoCall == [fn |-> "none"]
NoFrame == [week |-> <<>>, columns |-> <<>>, cells |-> <<>>]
NoReturn == [kind |-> "none", value |-> <<>>]
NoFile == [name_model |-> "none"]
NotLoaded ==
    [name_model |-> "none", end_date |-> 0, media_names |-> <<>>, prices |-> <<>>,
     extra_scaler |-> [n_features |-> -1, multiply_by |-> 0]]

ScriptIdle ==
    /\ pc = "idle"
    /\ model_file = NoFile
    /\ loaded = NotLoaded
    /\ n_weeks_to_predict = 0      \* not bound yet
    /\ budget_to_allocate = 0      \* not bound yet
    /\ run_button = FALSE
    /\ screen = <<>>
    /\ solver_result = NoReturn
    /\ table_data = <<>>

-----------------------------------------------------------------------------
(* SpecCanon: line 41 applied to a raw name, and again to its own result *)

InitCanon ==
    /\ name \in RawNames
    /\ standardized = <<>>
    /\ extra_scaler \in {CHOOSE s \in Scalers : TRUE}
    /\ call = NoCall /\ df = NoFrame /\ ret = NoReturn
    /\ solver_calls = <<>>
    /\ ScriptIdle

Standardize ==
    /\ Len(standardized) < MaxApplications
    /\ standardized' =
          Append(standardized,
                 standardized_name(IF standardized = <<>> THEN name
                                   ELSE standardized[Len(standardized)]))
    /\ UNCHANGED <<name, callVars, scriptVars>>

NextCanon == Standardize

SpecCanon == InitCanon /\ [][NextCanon]_vars

-----------------------------------------------------------------------------
(* SpecCall: add_holiday_columns_to_array called with arguments of the      *)
(* caller's choice, between rebindings of the module-level extra_scaler      *)

InitCall ==
    /\ extra_scaler \in Scalers
    /\ call = NoCall /\ df = NoFrame /\ ret = NoReturn
    /\ solver_calls = <<>>
    /\ name = <<>> /\ standardized = <<>>
    /\ ScriptIdle

\* line 111 binds the module-level extra_scaler to the loaded bundle's scaler
BindExtraScaler ==
    /\ \E s \in Scalers : extra_scaler' = s
    /\ extra_scaler' # extra_scaler
    /\ UNCHANGED <<call, df, ret, solver_calls, canonVars>>
    /\ UNCHANGED <<pc, model_file, loaded, n_weeks_to_predict, budget_to_allocate,
                   run_button, screen, solver_result, table_data>>

CallAddHolidayColumns ==
    /\ \E end_date \in EndDates, time_period \in 1..MaxHorizon :
          /\ call' = [fn |-> "add_holiday_columns_to_array",
                      end_date |-> end_date, time_period |-> time_period]
          /\ df' = HolidayFrame(end_date, time_period)
          /\ ret' = add_holiday_columns_to_array(end_date, time_period, extra_scaler)
    /\ solver_calls' = <<>>
    /\ UNCHANGED <<extra_scaler, canonVars>>
    /\ UNCHANGED <<pc, model_file, loaded, n_weeks_to_predict, budget_to_allocate,
                   run_button, screen, solver_result, table_data>>

NextCall == BindExtraScaler \/ CallAddHolidayColumns

SpecCall == InitCall /\ [][NextCall]_vars

-----------------------------------------------------------------------------
(* SpecAlloc: budget_allocator called with arguments of the caller's choice *)

InitAlloc ==
    /\ extra_scaler \in Scalers
    /\ call = NoCall /\ df = NoFrame /\ ret = NoReturn
    /\ solver_calls = <<>>
    /\ name = <<>> /\ standardized = <<>>
    /\ ScriptIdle

CallBudgetAllocator ==
    /\ \E end_date \in AllocEndDates, n_weeks \in 1..MaxAllocWeeks,
          budget \in Budgets, prices \in PriceVectors :
          /\ call' = [fn |-> "budget_allocator", end_date |-> end_date,
                      n_weeks_to_predict |-> n_weeks,
                      budget_to_allocate |-> budget, prices |-> prices]
          /\ \E o \in budget_allocator(n_weeks, budget, prices, end_date, extra_scaler) :
                /\ ret' = o.ret
                /\ solver_calls' = o.calls
    /\ UNCHANGED <<extra_scaler, df, canonVars>>
    /\ UNCHANGED <<pc, model_file, loaded, n_weeks_to_predict, budget_to_allocate,
                   run_button, screen, solver_result, table_data>>

NextAlloc == CallBudgetAllocator

SpecAlloc == InitAlloc /\ [][NextAlloc]_vars

-----------------------------------------------------------------------------
(* The script (lines 107-192): one run per user interaction *)

\* the largest budget typed into the page, in thousands
MaxBudget == 3

\* the bundles a user may upload: pipeline.named_steps of a pickled model
Bundles ==
    {[name_model |-> "weekly", end_date |-> DaysFromCivil(2023, 12, 24),
      media_names |-> <<"tv", "radio">>, prices |-> <<20, 50>>,
      extra_scaler |-> [n_features |-> 0, multiply_by |-> 1]],
     [name_model |-> "weekly_rescaled", end_date |-> DaysFromCivil(2023, 12, 24),
      media_names |-> <<"tv", "radio">>, prices |-> <<20, 50>>,
      extra_scaler |-> [n_features |-> 11, multiply_by |-> 3]],
     [name_model |-> "search_only", end_date |-> DaysFromCivil(2023, 12, 31),
      media_names |-> <<"search">>, prices |-> <<25>>,
      extra_scaler |-> [n_features |-> 0, multiply_by |-> 2]]}

\* a file that is no pickled pipeline
CorruptFile == [name_model |-> "corrupt"]

UploadedFiles == Bundles \cup {CorruptFile}

\* lines 83-103: pickle.load and the named_steps lookups raise on a file that is
\* no pipeline; the three plot calls (external) may raise on any model
load_model(file) ==
    IF file \in Bundles
    THEN {Return(file), Raise("plot failure")}
    ELSE {Raise("unpickling failure")}

\* st.number_input: a typed value outside [min_value, max_value] is not
\* committed and the widget keeps its default, min_value; has_max = FALSE when
\* no max_value is given
number_input(typed, min_value, has_max, max_value) ==
    IF typed >= min_value /\ (has_max => typed <= max_value)
    THEN typed ELSE min_value

\* line 126: st.stop() ends the run
AfterLoadFailureContinue == "budget"
AfterLoadFailure == "stopped"

\* round(v, 2) of a value in thousandths, giving hundredths (half to even)
Round2(thousandths) ==
    LET q == thousandths \div 10
        r == thousandths % 10
    IN  IF r < 5 THEN q
        ELSE IF r > 5 THEN q + 1
        ELSE IF q % 2 = 0 THEN q ELSE q + 1

\* lines 156-157: round(prices * allocation, 2), elementwise
CurrencyAllocation(prices, allocation) ==
    [i \in 1..Len(prices) |-> Round2(prices[i] * allocation[i])]

\* ndarray.sum()
RECURSIVE Sum(_)
Sum(v) == IF v = <<>> THEN 0 ELSE Head(v) + Sum(Tail(v))

\* lines 172-174: the appended row
TotalRowSwapped(optimal_budget_allocation, previous_budget_allocation) ==
    <<"Total", Sum(previous_budget_allocation), Sum(optimal_budget_allocation)>>
TotalRow(optimal_budget_allocation, previous_budget_allocation) ==
    <<"Total", Sum(optimal_budget_allocation), Sum(previous_budget_allocation)>>

\* lines 156-174: the table, columns Media, Optimal Allocation, Previous
\* Allocation; the casts and the second rounding of lines 164-170 leave
\* two-decimal values as they are
TableData(media_names, prices, solution_x, previous_media_allocation) ==
    LET previous_budget_allocation ==
            CurrencyAllocation(prices, previous_media_allocation)
        optimal_budget_allocation == CurrencyAllocation(prices, solution_x)
    IN  Append([i \in 1..Len(media_names) |->
                   <<media_names[i], optimal_budget_allocation[i],
                     previous_budget_allocation[i]>>],
               TotalRow(optimal_budget_allocation, previous_budget_allocation))

LoadSuccess == "success: Model loaded successfully!"
LoadFailure == "error: Failed to load model"
NoUpload == "error: Please upload a model file to proceed."
AllocationSuccess == "success: Optimal budget allocation calculated."
AllocationFailure == "error: Failed to run budget allocator"

Shown(element) == \E i \in 1..Len(screen) : screen[i] = element

NoScaler == [n_features |-> -1, multiply_by |-> 0]

Init ==
    /\ extra_scaler = NoScaler
    /\ call = NoCall /\ df = NoFrame /\ ret = NoReturn
    /\ solver_calls = <<>>
    /\ name = <<>> /\ standardized = <<>>
    /\ ScriptIdle

\* a user interaction starts a run of the script from the top, in a fresh
\* namespace; line 107 gives the uploaded file
Rerun ==
    /\ pc \in {"idle", "done", "stopped"}
    /\ \E file \in UploadedFiles \cup {NoFile} : model_file' = file
    /\ pc' = "uploaded"
    /\ loaded' = NotLoaded
    /\ extra_scaler' = NoScaler
    /\ screen' = <<>>
    /\ solver_calls' = <<>>
    /\ solver_result' = NoReturn
    /\ table_data' = <<>>
    /\ run_button' = FALSE
    /\ n_weeks_to_predict' = 0
    /\ budget_to_allocate' = 0
    /\ UNCHANGED <<call, df, ret, canonVars>>

\* lines 108, 191-192
NoModelFile ==
    /\ pc = "uploaded"
    /\ model_file = NoFile
    /\ screen' = Append(screen, NoUpload)
    /\ pc' = "done"
    /\ UNCHANGED <<model_file, loaded, extra_scaler, n_weeks_to_predict,
                   budget_to_allocate, run_button, solver_calls, solver_result,
                   table_data, call, df, ret, canonVars>>

\* lines 108-122: load_model returned and the report was written
LoadModelReturns ==
    /\ pc = "uploaded"
    /\ model_file # NoFile
    /\ \E o \in load_model(model_file) :
          /\ o.kind = "return"
          /\ loaded' = o.value
          /\ extra_scaler' = o.value.extra_scaler
    /\ screen' = screen \o <<LoadSuccess, "info", "plot1", "plot2", "plot3">>
    /\ pc' = "budget"
    /\ UNCHANGED <<model_file, n_weeks_to_predict, budget_to_allocate, run_button,
                   solver_calls, solver_result, table_data, call, df, ret, canonVars>>

\* lines 124-126: load_model raised
LoadModelRaises ==
    /\ pc = "uploaded"
    /\ model_file # NoFile
    /\ \E o \in load_model(model_file) : o.kind = "raise"
    /\ screen' = Append(screen, LoadFailure)
    /\ pc' = AfterLoadFailure
    /\ UNCHANGED <<model_file, loaded, extra_scaler, n_weeks_to_predict,
                   budget_to_allocate, run_button, solver_calls, solver_result,
                   table_data, call, df, ret, canonVars>>

\* lines 129-142: the two number inputs and the button
BudgetSection ==
    /\ pc = "budget"
    /\ \E weeks_typed \in 0..MaxHorizon, budget_typed \in -1..MaxBudget,
          pressed \in BOOLEAN :
          /\ n_weeks_to_predict' = number_input(weeks_typed, 1, TRUE, 12)
          /\ budget_to_allocate' = number_input(1000 * budget_typed, 1000, FALSE, 0)
          /\ run_button' = pressed
          /\ pc' = IF pressed THEN "allocate" ELSE "done"
    /\ UNCHANGED <<model_file, loaded, extra_scaler, screen, solver_calls,
                   solver_result, table_data, call, df, ret, canonVars>>

\* lines 143-153, 188-189: budget_allocator raised
AllocatorRaises ==
    /\ pc = "allocate"
    /\ \E o \in budget_allocator(n_weeks_to_predict, budget_to_allocate,
                                 loaded.prices, loaded.end_date, extra_scaler) :
          /\ o.ret.kind = "raise"
          /\ solver_calls' = solver_calls \o o.calls
    /\ screen' = Append(screen, AllocationFailure)
    /\ pc' = "done"
    /\ UNCHANGED <<model_file, loaded, extra_scaler, n_weeks_to_predict,
                   budget_to_allocate, run_button, solver_result, table_data,
                   call, df, ret, canonVars>>

\* lines 143-186: budget_allocator returned, the table and the comparison plot
\* were written
AllocationShown ==
    /\ pc = "allocate"
    /\ \E o \in budget_allocator(n_weeks_to_predict, budget_to_allocate,
                                 loaded.prices, loaded.end_date, extra_scaler) :
          /\ o.ret.kind = "return"
          /\ solver_calls' = solver_calls \o o.calls
          /\ solver_result' = o.ret
          /\ table_data' = TableData(loaded.media_names, loaded.prices, o.ret.value.x,
                                     o.ret.value.previous_media_allocation)
    /\ screen' = screen \o <<AllocationSuccess, "table", "comparison plot">>
    /\ pc' = "done"
    /\ UNCHANGED <<model_file, loaded, extra_scaler, n_weeks_to_predict,
                   budget_to_allocate, run_button, call, df, ret, canonVars>>

\* lines 143-189: budget_allocator returned and the table was written, then
\* plot_pre_post_budget_allocation_comparison (external) raised
ComparisonPlotRaises ==
    /\ pc = "allocate"
    /\ \E o \in budget_allocator(n_weeks_to_predict, budget_to_allocate,
                                 loaded.prices, loaded.end_date, extra_scaler) :
          /\ o.ret.kind = "return"
          /\ solver_calls' = solver_calls \o o.calls
          /\ solver_result' = o.ret
          /\ table_data' = TableData(loaded.media_names, loaded.prices, o.ret.value.x,
                                     o.ret.value.previous_media_allocation)
    /\ screen' = screen \o <<AllocationSuccess, "table", AllocationFailure>>
    /\ pc' = "done"
    /\ UNCHANGED <<model_file, loaded, extra_scaler, n_weeks_to_predict,
                   budget_to_allocate, run_button, call, df, ret, canonVars>>

Next ==
    \/ Rerun
    \/ NoModelFile
    \/ LoadModelReturns
    \/ LoadModelRaises
    \/ BudgetSection
    \/ AllocatorRaises
    \/ AllocationShown
    \/ ComparisonPlotRaises

Spec == Init /\ [][Next]_vars

-----------------------------------------------------------------------------
(* Properties of add_holiday_columns_to_array, under SpecCall *)

AddHolidayCalled == call.fn = "add_holiday_columns_to_array"

\* the US holiday dates of the calendar years a week's window touches
CalendarOfWindow(week_start) ==
    USHolidays({YearOf(week_start), YearOf(week_start + 6)})

\* the canonical names of the holidays of a calendar that have a date in the
\* closed window [week_start, week_start + 6]
OccurringIn(calendar, week_start) ==
    {standardized_name(h.name) :
        h \in {g \in calendar : week_start <= g.date /\ g.date <= week_start + 6}}

ColumnIndex(frame, column) ==
    {j \in 1..Len(frame.columns) : frame.columns[j] = column}

\* C1: every holiday date of the US calendar lying in a week's closed window
\* [week_start, week_start + 6] has its canonical column set to 1 in that
\* week's row of the unscaled frame, whatever year the holiday date is in.
C1_HolidayInWindowMarked ==
    AddHolidayCalled =>
        \A k \in 1..call.time_period :
            LET week_start == call.end_date + 7 * k
            IN  \A h \in CalendarOfWindow(week_start) :
                    (week_start <= h.date /\ h.date <= week_start + 6)
                    => /\ k \in DOMAIN df.cells
                       /\ \E j \in ColumnIndex(df, standardized_name(h.name)) :
                             df.cells[k][j] = 1

\* C2: a canonical column with no occurrence date in a week's window is present
\* in that week's row and is 0 there.
C2_NoHolidayInWindowIsZero ==
    AddHolidayCalled =>
        \A k \in 1..call.time_period :
            LET week_start == call.end_date + 7 * k
            IN  /\ k \in DOMAIN df.cells
                /\ Len(df.cells[k]) = Len(df.columns)
                /\ \A j \in 1..Len(df.columns) :
                      df.columns[j] \notin OccurringIn(CalendarOfWindow(week_start),
                                                      week_start)
                      => df.cells[k][j] = 0

NewYearColumn == <<"h","l","d","y","_","n","e","w","_","y","e","a","r","_","d","a","y">>

\* C2's case: start 2023-12-31, two weeks; the New Year column exists, is 0 in
\* both rows, and the second row marks another holiday
C2_Witness ==
    /\ AddHolidayCalled
    /\ call.end_date = DaysFromCivil(2023, 12, 31)
    /\ call.time_period = 2
    /\ \E j \in ColumnIndex(df, NewYearColumn) :
          df.cells[1][j] = 0 /\ df.cells[2][j] = 0
    /\ \A j \in 1..Len(df.columns) : df.cells[1][j] = 0
    /\ \E j \in 1..Len(df.columns) : df.cells[2][j] = 1

\* C3: the returned matrix has exactly time_period rows; row k is the row of the
\* week starting end_date + k weeks, in ascending order, scaled by one scaler;
\* the week column is not part of the output.
C3_OneRowPerWeekInOrder ==
    (AddHolidayCalled /\ ret.kind = "return") =>
        /\ ret.value.shape = <<call.time_period, Len(df.columns)>>
        /\ Len(ret.value.data) = call.time_period
        /\ Len(df.week) = call.time_period
        /\ \A k \in 1..call.time_period :
              /\ df.week[k] = call.end_date + 7 * k
              /\ Len(ret.value.data[k]) = Len(df.columns)
              /\ \A j \in 1..Len(df.columns) :
                    df.cells[k][j] =
                       IF df.columns[j] \in
                             OccurringIn(USHolidays(UniqueYears(df.week)), df.week[k])
                       THEN 1 ELSE 0
        /\ \E s \in Scalers :
              \A k \in 1..call.time_period : \A j \in 1..Len(df.columns) :
                  ret.value.data[k][j] = df.cells[k][j] * s.multiply_by

\* C3's case: a horizon above 12 returned with all its rows, a holiday marked
\* in its twelfth row alone among the last three
C3_Witness ==
    /\ AddHolidayCalled
    /\ ret.kind = "return"
    /\ call.time_period = 13
    /\ Len(ret.value.data) = 13
    /\ \E j \in 1..Len(df.columns) :
          /\ ret.value.data[12][j] # 0
          /\ ret.value.data[11][j] = 0
          /\ ret.value.data[13][j] = 0

\* C6: when the holiday source has no holiday for the spanned years, the call
\* raises; it never returns a matrix with time_period rows and no column.
C6_EmptyCalendarRaises ==
    (AddHolidayCalled /\ USHolidays(UniqueYears(df.week)) = {})
    => (ret.kind = "raise" /\ ~ (ret.kind = "return" /\ ret.value.shape[2] = 0))

\* C9: two calls with equal arguments return equal covariate matrices, whatever
\* the module-level names hold at the time of each call.
C9_ResultDependsOnArgumentsOnly ==
    [][(/\ AddHolidayCalled /\ call' = call
        /\ ret.kind = "return" /\ ret'.kind = "return") => ret'.value = ret.value]_vars

-----------------------------------------------------------------------------
(* Properties of budget_allocator, under SpecAlloc *)

\* C7: a call of budget_allocator with budget_to_allocate <= 0 never returns an
\* allocation: it ends in a failure propagated to the caller.
C7_NonPositiveBudgetFails ==
    (call.fn = "budget_allocator" /\ call.budget_to_allocate <= 0)
    => ret.kind = "raise"

-----------------------------------------------------------------------------
(* Properties of the canonicalization, under SpecCanon *)

\* C8: canonicalizing a canonical name gives the same name again:
\* canon(canon(n)) = canon(n) for every raw holiday name n.
C8_CanonIdempotent ==
    Len(standardized) = 2 => standardized[2] = standardized[1]

-----------------------------------------------------------------------------
(* Properties of the script, under Spec *)

\* v rounded to two decimals, half to even: c hundredths for t thousandths
IsRounded(c, t) ==
    /\ 10 * c - 5 <= t
    /\ t <= 10 * c + 5
    /\ (t = 10 * c - 5 \/ t = 10 * c + 5) => c % 2 = 0

ColumnSum(table, column, n) ==
    LET cells == [i \in 1..n |-> table[i][column]]
    IN  Sum(cells)

\* C4: after a successful solver call the table has one row per channel with
\* optimal = round(prices[i] * solution.x[i], 2) in the second column and
\* previous = round(prices[i] * previous_media_allocation[i], 2) in the third,
\* and a last row 'Total' whose cells are the sums of the cells above them.
C4_TableReconciles ==
    table_data # <<>> =>
        LET n == Len(loaded.prices)
            x == solver_result.value.x
            previous == solver_result.value.previous_media_allocation
        IN  /\ solver_result.kind = "return"
            /\ Len(table_data) = n + 1
            /\ \A i \in 1..n :
                  /\ table_data[i][1] = loaded.media_names[i]
                  /\ IsRounded(table_data[i][2], loaded.prices[i] * x[i])
                  /\ IsRounded(table_data[i][3], loaded.prices[i] * previous[i])
            /\ table_data[n + 1][1] = "Total"
            /\ table_data[n + 1][2] = ColumnSum(table_data, 2, n)
            /\ table_data[n + 1][3] = ColumnSum(table_data, 3, n)

\* C4's case: prices [2, 5], previous [10, 4], solution.x [8, 5]
C4_Witness ==
    /\ loaded.prices = <<20, 50>>
    /\ solver_result.kind = "return"
    /\ solver_result.value.x = <<800, 500>>
    /\ solver_result.value.previous_media_allocation = <<1000, 400>>
    /\ table_data = << <<"tv", 1600, 2000>>, <<"radio", 2500, 2000>>,
                       <<"Total", 4100, 4000>> >>

\* C5: a run started by the button ends either with the complete table and no
\* failure, or with a failure reported and nothing of the result produced; no
\* run reports the allocation as successful and then ends with a failure.
C5_TableOrFailureNotBoth ==
    (pc = "done" /\ run_button) =>
        \/ /\ Shown("table") /\ Len(table_data) = Len(loaded.prices) + 1
           /\ ~ Shown(AllocationFailure)
        \/ /\ Shown(AllocationFailure)
           /\ ~ Shown(AllocationSuccess) /\ ~ Shown("table") /\ table_data = <<>>

\* C10: in every run the solver is called at most once, and only with a file
\* uploaded, load_model returned and the button pressed, with a horizon in
\* 1..12 and a budget of at least 1000; after a failed load_model the run has
\* stopped without reaching the budget section.
C10_SolverCalledOnceWithinBounds ==
    /\ Len(solver_calls) <= 1
    /\ \A i \in 1..Len(solver_calls) :
          /\ model_file \in Bundles
          /\ loaded = model_file
          /\ Shown(LoadSuccess)
          /\ run_button
          /\ solver_calls[i].n_time_periods \in 1..12
          /\ solver_calls[i].n_time_periods = n_weeks_to_predict
          /\ solver_calls[i].budget >= 1000
          /\ solver_calls[i].budget = budget_to_allocate
    /\ pc \in {"allocate"} => (n_weeks_to_predict \in 1..12 /\ budget_to_allocate >= 1000)
    /\ Shown(LoadFailure) =>
          /\ pc = "stopped"
          /\ solver_calls = <<>>
          /\ ~ run_button
          /\ loaded = NotLoaded

\* C10's case: a run that called the solver once, at the largest horizon and
\* the largest budget the page was given
C10_Witness ==
    /\ pc = "done"
    /\ Len(solver_calls) = 1
    /\ solver_calls[1].n_time_periods = 12
    /\ solver_calls[1].budget = 3000

====
